---- MODULE Spec2Model ----
(***************************************************************************)
(* Model of estimate_data_volume.cc: main(), set_rawdata_cache(),          *)
(* op_func(), report() and header(), with the HDF5 library as a            *)
(* nondeterministic collaborator (every call may succeed or fail).         *)
(***************************************************************************)
EXTENDS Integers, Sequences, FiniteSets, TLC

VARIABLES
  pc,              \* position of main()
  argc,            \* argument count
  infile_ok,       \* std::ifstream infile opened
  outfile_ok,      \* std::ofstream outfile opened
  out,             \* records the output stream holds
  hdf5_files,      \* std::vector<std::string> hdf5_files
  curr_alloc,      \* H5_alloc_stats_t curr_alloc
  curr_file_size,  \* hsize_t curr_file_size
  acc_file_size,   \* hsize_t acc_file_size
  fapl_cache,      \* cache fields held by the property list fapl_id
  cache_args,      \* mdc_nelmts, rdcc_nslots, rdcc_nbytes, w0 of set_rawdata_cache
  queried,         \* history: what the H5Pget_cache calls reported, in order
  submitted,       \* arguments of the H5Pset_cache calls made, in order
  i,               \* loop index of main (1-based)
  file_id,         \* hid_t file_id
  file_ids,        \* std::map<std::string, hid_t> file_ids
  fid,             \* iterator of the close loop: entries of file_ids behind it
  next_hid,        \* next identifier the library hands out
  open_files,      \* file identifiers open in the library
  closed,          \* identifiers H5Fclose released, in order
  root_visited,    \* the running H5Ovisit has called op_func on the root group
  last,            \* what the op_func calls of the running traversal did
  dsets_open,      \* dataset identifiers open in the library
  dset_ids,        \* op_data.dset_ids
  err,             \* herr_t err of main
  exit_code,       \* process exit status, read once the process has ended
  diag,            \* text _HANDLE_ERROR / usage printed, "" if none
  events,          \* history: calls made so far, in order
  outcomes         \* history: per path index, what open/size/visit reported

vars == <<pc, argc, infile_ok, outfile_ok, out, hdf5_files, curr_alloc,
          curr_file_size, acc_file_size, fapl_cache, cache_args, queried,
          submitted, i, file_id, file_ids, fid, next_hid, open_files, closed,
          root_visited, last,
          dsets_open, dset_ids, err, exit_code, diag, events, outcomes>>

----------------------------------------------------------------------------
\* Bounds of the model
MaxFiles == 2
MaxDsets == 2

\* hsize_t is an unsigned 64-bit integer; the model keeps the wrap-around
\* at a narrower width
HsizeBits == 12

\* Program constants
NSlotsArg == 521
ChunkCacheSize == 64 * 1024 * 1024
W0Arg == 100
posix_open == TRUE
in_memory_io == TRUE
chunk_caching == TRUE

Paths == {1, 2}
HsizeMod == 2 ^ HsizeBits
FileSizes == {1000, 2500}
\* Cache fields a freshly created file-access property list may report
\* (w0 in hundredths)
DefaultCaches ==
  {[mdc |-> 0, nslots |-> 521, nbytes |-> 1024 * 1024, w0 |-> 75],
   [mdc |-> 10000, nslots |-> 10007, nbytes |-> 16 * 1024 * 1024, w0 |-> 0]}
DimSizes == {0, 2}
Garbage == {0, 7}
InvalidHid == -1

FileLists == UNION {[1..n -> Paths] : n \in 0..MaxFiles}

HeaderRec == "total_alloc_bytes,curr_alloc_bytes,peak_alloc_bytes,acc_file_size"

----------------------------------------------------------------------------
\* report(): one row appended to the stream; a stream that failed to open
\* ignores the write
report(file, alloc, acc) ==
  IF outfile_ok THEN Append(file, <<alloc, acc>>) ELSE file

\* header() with the write left out
header_Omitted(file, ok) == file

\* header(): the header line
header(file, ok) ==
  IF ok THEN Append(file, <<HeaderRec>>) ELSE file

\* H5Pget_cache asked for the byte capacity only (NULL for the other
\* out-parameters), so the caller's slot count and weight survive
H5Pget_cache_BytesOnly(plist, args) ==
  [mdc |-> plist.mdc, nslots |-> args.nslots,
   nbytes |-> plist.nbytes, w0 |-> args.w0]

\* H5Pget_cache(fapl_id, &mdc_nelmts, &rdcc_nslots, &rdcc_nbytes, &w0):
\* every out-parameter is overwritten with the property list's value
H5Pget_cache(plist, args) ==
  [mdc |-> plist.mdc, nslots |-> plist.nslots,
   nbytes |-> plist.nbytes, w0 |-> plist.w0]

\* H5get_alloc_stats(&curr_alloc): the library's own counters, which grow
\* with the identifiers it holds open
H5get_alloc_stats == Cardinality(open_files) + dsets_open

\* _HANDLE_ERROR(fun): print "Error: fun", exit(1)
HandleError(fun) ==
  /\ diag' = fun
  /\ exit_code' = 1
  /\ pc' = "exited"

Log(e) == events' = Append(events, e)

----------------------------------------------------------------------------
\* op_func, lines 74-86, on one visited object. dims0 is what dset_dims[0]
\* holds when it is read at line 82: the first extent when
\* H5Sget_simple_extent_dims wrote one, otherwise the never-initialised
\* stack value.
DimsRead(obj, garbage) == IF obj.rank >= 1 THEN obj.dim0 ELSE garbage

op_func(obj, garbage) ==
  IF obj.type = "DATASET"
    THEN [type |-> obj.type, rank |-> obj.rank, dim0 |-> obj.dim0,
          dset_opened |-> TRUE, space_opened |-> TRUE, space_closed |-> TRUE,
          dset_closed |-> (DimsRead(obj, garbage) <= 0), ret |-> 0]
    ELSE [type |-> obj.type, rank |-> obj.rank, dim0 |-> obj.dim0,
          dset_opened |-> FALSE, space_opened |-> FALSE, space_closed |-> FALSE,
          dset_closed |-> FALSE, ret |-> 0]

\* Objects a file may hold. Groups and named datatypes carry no dataspace,
\* and a dataset of rank 0 (scalar) has no first dimension: dim0 is -1.
Objects ==
  [type : {"GROUP", "NAMED_DATATYPE"}, rank : {0}, dim0 : {-1}]
    \cup [type : {"DATASET"}, rank : {0}, dim0 : {-1}]
    \cup [type : {"DATASET"}, rank : 1..3, dim0 : DimSizes]

\* hdf5_files.size() reached: leave the loop for the close phase
AfterFile(k) == IF k <= Len(hdf5_files) THEN "open" ELSE "close"

\* keys of file_ids, and the key the iterator fid stands on (std::map
\* iterates in key order; closed keys are behind the iterator)
Keys == DOMAIN file_ids
KeyAt(n) == CHOOSE p \in Keys : Cardinality({q \in Keys : q < p}) = n

SetOutcome(field, v) ==
  outcomes' = [outcomes EXCEPT ![i] = [@ EXCEPT ![field] = v]]

iov == <<argc, infile_ok, outfile_ok, hdf5_files>>
cfgv == <<fapl_cache, cache_args, queried, submitted>>
sizev == <<curr_file_size, acc_file_size>>
hidv == <<file_id, fid, next_hid, open_files>>
visitv == <<root_visited, last, dsets_open, dset_ids>>
endv == <<exit_code, diag>>

----------------------------------------------------------------------------
Init ==
  /\ pc = "start"
  /\ argc \in {2, 3, 4}
  /\ infile_ok = FALSE
  /\ outfile_ok = FALSE
  /\ out = <<>>
  /\ hdf5_files = <<>>
  /\ curr_alloc = 0
  /\ curr_file_size = 0
  /\ acc_file_size = 0
  /\ fapl_cache = [mdc |-> 0, nslots |-> 0, nbytes |-> 0, w0 |-> 0]
  /\ cache_args = [mdc |-> 0, nslots |-> 0, nbytes |-> 0, w0 |-> 0]
  /\ queried = <<>>
  /\ submitted = <<>>
  /\ i = 1
  /\ file_id = InvalidHid
  /\ file_ids = <<>>
  /\ fid = 0
  /\ next_hid = 1
  /\ open_files = {}
  /\ closed = <<>>
  /\ root_visited = FALSE
  /\ last = <<>>
  /\ dsets_open = 0
  /\ dset_ids = <<>>
  /\ err = 0
  /\ exit_code = 0
  /\ diag = ""
  /\ events = <<>>
  /\ outcomes = <<>>

\* main, lines 92-95: argument count check
CheckArgs ==
  /\ pc = "start"
  /\ IF argc # 3
       THEN /\ diag' = "Usage"
            /\ exit_code' = 1
            /\ pc' = "exited"
       ELSE /\ pc' = "streams"
            /\ UNCHANGED endv
  /\ UNCHANGED <<iov, out, curr_alloc, sizev, cfgv, i, hidv, file_ids,
                 closed, visitv, err, events, outcomes>>

\* main, lines 97-99: both streams are constructed (neither is tested) and
\* the header is written
OpenStreams ==
  /\ pc = "streams"
  /\ \E iok \in BOOLEAN, ook \in BOOLEAN :
       /\ infile_ok' = iok
       /\ outfile_ok' = ook
       /\ out' = header(out, ook)
  /\ Log(<<"header", 0>>)
  /\ pc' = "read"
  /\ UNCHANGED <<argc, hdf5_files, curr_alloc, sizev, cfgv, i, hidv, file_ids,
                 closed, visitv, err, endv, outcomes>>

\* main, lines 101-104: getline loop; a stream that failed to open yields
\* no line
ReadList ==
  /\ pc = "read"
  /\ \E list \in FileLists :
       /\ infile_ok \/ list = <<>>
       /\ hdf5_files' = list
  /\ pc' = "core"
  /\ UNCHANGED <<argc, infile_ok, outfile_ok, out, curr_alloc, sizev, cfgv, i,
                 hidv, file_ids, closed, visitv, err, endv, events, outcomes>>

\* main, lines 117-123 (posix_open and in_memory_io are both true):
\* H5Pcreate, whose property list carries the library's default cache
\* fields, then H5Pset_fapl_core; line 125 passes 521, 64 MiB and 1.0 to
\* set_rawdata_cache
SetFaplCore ==
  /\ pc = "core"
  /\ posix_open /\ in_memory_io
  /\ \E d \in DefaultCaches : fapl_cache' = d
  /\ \E ok \in BOOLEAN :
       IF ~ok
         THEN /\ err' = -1
              /\ HandleError("H5Pset_fapl_core")
              /\ UNCHANGED cache_args
         ELSE /\ err' = 0
              /\ pc' = IF chunk_caching THEN "get_cache" ELSE "baseline"
              /\ cache_args' = [mdc |-> 0, nslots |-> NSlotsArg,
                                nbytes |-> ChunkCacheSize, w0 |-> W0Arg]
              /\ UNCHANGED endv
  /\ Log(<<"fapl_core", 0>>)
  /\ UNCHANGED <<iov, out, curr_alloc, sizev, queried, submitted, i, hidv,
                 file_ids, closed, visitv, outcomes>>

\* set_rawdata_cache, lines 47-48
GetCache ==
  /\ pc = "get_cache"
  /\ \E ok \in BOOLEAN :
       IF ~ok
         THEN /\ HandleError("H5Pget_cache")
              /\ UNCHANGED <<cache_args, queried>>
         ELSE /\ cache_args' = H5Pget_cache(fapl_cache, cache_args)
              /\ queried' = Append(queried, fapl_cache)
              /\ pc' = "set_cache"
              /\ UNCHANGED endv
  /\ UNCHANGED <<iov, out, curr_alloc, sizev, fapl_cache, submitted, i, hidv,
                 file_ids, closed, visitv, err, events, outcomes>>

\* set_rawdata_cache, lines 58-61, and its return to main, line 126
\* (err_exit is 0, so the test there never fires)
SetCache ==
  /\ pc = "set_cache"
  /\ submitted' = Append(submitted, cache_args)
  /\ \E ok \in BOOLEAN :
       IF ~ok
         THEN /\ HandleError("H5Pset_cache")
              /\ UNCHANGED fapl_cache
         ELSE /\ fapl_cache' = cache_args
              /\ pc' = "baseline"
              /\ UNCHANGED endv
  /\ Log(<<"set_cache", 0>>)
  /\ UNCHANGED <<iov, out, curr_alloc, sizev, cache_args, queried, i, hidv,
                 file_ids, closed, visitv, err, outcomes>>

\* main, lines 142-147: the baseline row, then the loop test
Baseline ==
  /\ pc = "baseline"
  /\ curr_alloc' = H5get_alloc_stats
  /\ out' = report(out, curr_alloc', acc_file_size)
  /\ Log(<<"report", 0>>)
  /\ pc' = AfterFile(i)
  /\ UNCHANGED <<iov, sizev, cfgv, i, hidv, file_ids, closed, visitv, err,
                 endv, outcomes>>

\* main, line 148: H5Fopen; the returned identifier is not tested
OpenFile ==
  /\ pc = "open"
  /\ \E ok \in BOOLEAN :
       IF ok
         THEN /\ file_id' = next_hid
              /\ next_hid' = next_hid + 1
              /\ open_files' = open_files \cup {next_hid}
              /\ outcomes' = Append(outcomes,
                   [opened |-> TRUE, hid |-> next_hid, size |-> -1, visit |-> "none"])
         ELSE /\ file_id' = InvalidHid
              /\ UNCHANGED <<next_hid, open_files>>
              /\ outcomes' = Append(outcomes,
                   [opened |-> FALSE, hid |-> InvalidHid, size |-> -1, visit |-> "none"])
  /\ Log(<<"open", i>>)
  /\ pc' = "size"
  /\ UNCHANGED <<iov, out, curr_alloc, sizev, cfgv, i, file_ids, fid, closed,
                 visitv, err, endv>>

\* main, lines 149-150: H5Fget_filesize (status not tested; on failure
\* curr_file_size keeps its value), then the unsigned 64-bit addition
GetFileSize ==
  /\ pc = "size"
  /\ IF file_id \in open_files
       THEN \E s \in FileSizes :
              /\ curr_file_size' = s
              /\ SetOutcome("size", s)
       ELSE /\ UNCHANGED curr_file_size
            /\ UNCHANGED outcomes
  /\ acc_file_size' = (acc_file_size + curr_file_size') % HsizeMod
  /\ Log(<<"size", i>>)
  /\ pc' = "visit"
  /\ UNCHANGED <<iov, out, curr_alloc, cfgv, i, hidv, file_ids, closed,
                 visitv, err, endv>>

\* One object of H5Ovisit's traversal, line 152: the library calls op_func
\* on it (the root group first). A dataset of rank above 2 makes
\* H5Sget_simple_extent_dims write past hsize_t dset_dims[2]: the process
\* either carries on or is killed.
VisitObject ==
  /\ pc = "visit"
  /\ file_id \in open_files
  /\ \E obj \in Objects, garbage \in Garbage :
       /\ ~root_visited => obj.type = "GROUP"
       /\ obj.rank >= 1 => garbage = 0
       /\ LET r == op_func(obj, garbage) IN
            /\ last' = <<r>>
            /\ r.dset_opened /\ ~r.dset_closed => dsets_open < MaxDsets
            /\ dsets_open' = dsets_open +
                 (IF r.dset_opened /\ ~r.dset_closed THEN 1 ELSE 0)
       /\ \/ /\ pc' = "visit"
             /\ UNCHANGED endv
          \/ /\ obj.type = "DATASET" /\ obj.rank > 2
             /\ pc' = "aborted"
             /\ exit_code' = 134
             /\ UNCHANGED diag
  /\ root_visited' = TRUE
  /\ UNCHANGED <<iov, out, curr_alloc, sizev, cfgv, i, hidv, file_ids, closed,
                 dset_ids, err, events, outcomes>>

\* H5Ovisit returns, line 152: its status goes to err and is not tested.
\* An invalid file_id is rejected before any object is visited.
VisitEnd ==
  /\ pc = "visit"
  /\ \E status \in {0, -1} :
       /\ file_id \notin open_files => status = -1
       /\ status = 0 => root_visited
       /\ err' = status
       /\ SetOutcome("visit", IF status = 0 THEN "ok" ELSE "fail")
  /\ Log(<<"visit", i>>)
  /\ root_visited' = FALSE
  /\ last' = <<>>
  /\ pc' = "report"
  /\ UNCHANGED <<iov, out, curr_alloc, sizev, cfgv, i, hidv, file_ids, closed,
                 dsets_open, dset_ids, endv>>

\* main, lines 154-158: the per-file row, then the handle is stored under
\* its path (replacing what the path held) and the loop goes on
ReportRetain ==
  /\ pc = "report"
  /\ curr_alloc' = H5get_alloc_stats
  /\ out' = report(out, curr_alloc', acc_file_size)
  /\ Log(<<"report", i>>)
  /\ file_ids' = [p \in Keys \cup {hdf5_files[i]} |->
                    IF p = hdf5_files[i] THEN file_id ELSE file_ids[p]]
  /\ i' = i + 1
  /\ pc' = AfterFile(i + 1)
  /\ UNCHANGED <<iov, sizev, cfgv, hidv, closed, visitv, err, endv, outcomes>>

\* main, lines 160-163: H5Fclose on the entry the iterator stands on
CloseFile ==
  /\ pc = "close"
  /\ fid < Cardinality(Keys)
  /\ LET h == file_ids[KeyAt(fid)] IN
       \E ok \in BOOLEAN :
         /\ h \notin open_files => ~ok
         /\ Log(<<"close", h>>)
         /\ IF ok
              THEN /\ err' = 0
                   /\ open_files' = open_files \ {h}
                   /\ closed' = Append(closed, h)
                   /\ fid' = fid + 1
                   /\ UNCHANGED <<pc, endv>>
              ELSE /\ err' = -1
                   /\ HandleError("H5Fclose")
                   /\ UNCHANGED <<open_files, closed, fid>>
  /\ UNCHANGED <<iov, out, curr_alloc, sizev, cfgv, i, file_id, next_hid,
                 file_ids, visitv, outcomes>>

\* main, lines 165-167: the streams are closed and main returns 0
Finish ==
  /\ pc = "close"
  /\ fid = Cardinality(Keys)
  /\ pc' = "done"
  /\ exit_code' = 0
  /\ UNCHANGED <<iov, out, curr_alloc, sizev, cfgv, i, hidv, file_ids, closed,
                 visitv, err, diag, events, outcomes>>

Next ==
  \/ CheckArgs
  \/ OpenStreams
  \/ ReadList
  \/ SetFaplCore
  \/ GetCache
  \/ SetCache
  \/ Baseline
  \/ OpenFile
  \/ GetFileSize
  \/ VisitObject
  \/ VisitEnd
  \/ ReportRetain
  \/ CloseFile
  \/ Finish

Spec == Init /\ [][Next]_vars

----------------------------------------------------------------------------
\* Vocabulary of the properties

Terminated == pc \in {"exited", "done", "aborted"}

\* the loop over hdf5_files has run to its end
LoopDone == pc \in {"close", "done"} \/ (pc = "exited" /\ diag = "H5Fclose")

\* report() calls made so far, and those made for path index k
ReportCalls == Cardinality({n \in 1..Len(events) : events[n][1] = "report"})
Reported(k) == \E n \in 1..Len(events) : events[n] = <<"report", k>>

\* data rows the stream holds (every record but the header)
Rows == SelectSeq(out, LAMBDA r : Len(r) = 2)

\* exact (unbounded) sum of the sizes H5Fget_filesize reported for paths 1..k
RECURSIVE SumSizes(_)
SumSizes(k) ==
  IF k = 0 THEN 0
  ELSE SumSizes(k - 1) + (IF outcomes[k].size >= 0 THEN outcomes[k].size ELSE 0)

Opened == {k \in 1..Len(outcomes) : outcomes[k].opened}

TimesClosed(h) == Cardinality({n \in 1..Len(closed) : closed[n] = h})

\* the first collaborator operation that reported failure, "" if none
FailedAt(k) ==
  IF ~outcomes[k].opened THEN "H5Fopen"
  ELSE IF outcomes[k].visit = "fail" THEN "H5Ovisit"
  ELSE ""
FirstFailed ==
  LET bad == {k \in 1..Len(outcomes) : FailedAt(k) # ""} IN
    IF bad # {} THEN FailedAt(CHOOSE k \in bad : \A j \in bad : k <= j)
    ELSE IF pc = "exited" /\ diag # "Usage" THEN diag
    ELSE ""

\* the n-th call main makes in a run without failure: header, property
\* list, cache, baseline row, then open/size/visit/row for each path
CanonAt(n) ==
  IF n = 1 THEN <<"header", 0>>
  ELSE IF n = 2 THEN <<"fapl_core", 0>>
  ELSE IF n = 3 THEN <<"set_cache", 0>>
  ELSE IF n = 4 THEN <<"report", 0>>
  ELSE LET k == ((n - 5) \div 4) + 1
           j == (n - 5) % 4
       IN <<CASE j = 0 -> "open" [] j = 1 -> "size"
              [] j = 2 -> "visit" [] OTHER -> "report", k>>
Calls == SelectSeq(events, LAMBDA e : e[1] # "close")

----------------------------------------------------------------------------
\* C1: a path H5Fopen rejects gets no row (report is not called for it),
\* and the run ends with a non-zero status and a diagnostic naming the
\* open failure.
C1_OpenFailureFatal ==
  \A k \in 1..Len(outcomes) :
    ~outcomes[k].opened =>
      /\ ~Reported(k)
      /\ Terminated => (exit_code # 0 /\ diag = "H5Fopen")

\* C2: the acc_file_size column never decreases, and the row written after
\* the k-th path holds exactly the sum of the sizes H5Fget_filesize
\* reported for paths 1..k (0 in the baseline row).
C2_AccExactSum ==
  \A n \in 1..Len(Rows) :
    /\ Rows[n][2] = SumSizes(n - 1)
    /\ n > 1 => Rows[n][2] >= Rows[n - 1][2]

\* C3: once the loop is over, report has been called (number of paths
\* opened successfully) + 1 times; for an empty list that is once, and
\* file_ids is empty.
C3_RowCount ==
  LoopDone =>
    /\ ReportCalls = Cardinality(Opened) + 1
    /\ hdf5_files = <<>> => (ReportCalls = 1 /\ Keys = {})

\* C4: every H5Pset_cache call of set_rawdata_cache carries the byte
\* capacity the caller asked for (64 MiB).
C4_RequestedCapacity ==
  \A n \in 1..Len(submitted) : submitted[n].nbytes = ChunkCacheSize

\* C5: every H5Pset_cache call of set_rawdata_cache carries, in every field
\* but the byte capacity, the value H5Pget_cache reported just before.
C5_OtherFieldsDefault ==
  \A n \in 1..Len(submitted) :
    /\ n <= Len(queried)
    /\ submitted[n].mdc = queried[n].mdc
    /\ submitted[n].nslots = queried[n].nslots
    /\ submitted[n].w0 = queried[n].w0

\* C5 witness: H5Pset_cache was called after the library reported defaults
\* that differ from the 521 slots and weight 1.0 main passed in.
C5_Witness ==
  /\ Len(submitted) = 1
  /\ queried[1].nslots # NSlotsArg
  /\ queried[1].w0 # W0Arg

\* C6: a handle H5Fopen returned stays open until the loop is over, and has
\* been closed by H5Fclose exactly once when main returns.
C6_AllHandlesClosedOnce ==
  \A k \in Opened :
    /\ pc \in {"open", "size", "visit", "report"} =>
         outcomes[k].hid \in open_files
    /\ pc = "done" => TimesClosed(outcomes[k].hid) = 1

\* C7: once a collaborator operation has reported failure, the process
\* ends with exit code 1 and a diagnostic naming that operation; it never
\* returns 0.
C7_FailureIsFatal ==
  (Terminated /\ FirstFailed # "") => (exit_code = 1 /\ diag = FirstFailed)

\* C8: a run whose input list or output file could not be opened ends with
\* a non-zero exit status.
C8_StreamFailureFatal ==
  (Terminated /\ events # <<>> /\ (~infile_ok \/ ~outfile_ok)) => exit_code # 0

\* C9: with two arguments, the calls main makes follow the order header,
\* access strategy, baseline row, then open, size query, traversal and row
\* for each path in list order; the stream holds the header as its first
\* record and nowhere else, then the baseline row with acc_file_size 0,
\* then one row per report call.
C9_RecordOrder ==
  /\ events # <<>> => argc = 3
  /\ \A n \in 1..Len(Calls) : Calls[n] = CanonAt(n)
  /\ \A n \in 1..Len(Calls) :
       Calls[n][1] \in {"open", "size", "visit", "report"} /\ Calls[n][2] > 0
         => Calls[n][2] <= Len(hdf5_files)
  /\ (outfile_ok /\ events # <<>>) =>
       /\ Len(out) = 1 + ReportCalls
       /\ out[1] = <<HeaderRec>>
       /\ \A n \in 2..Len(out) : Len(out[n]) = 2
       /\ Len(out) >= 2 => out[2][2] = 0

\* C9 witness: a two-path run that returned, its four records written.
C9_Witness ==
  /\ pc = "done"
  /\ outfile_ok
  /\ Len(hdf5_files) = 2
  /\ Len(out) = 4
  /\ Calls[Len(Calls)] = <<"report", 2>>

\* C10: op_func opens a handle for a dataset and for nothing else, closes
\* it exactly when the dataset's first dimension has size 0, always closes
\* the dataspace, returns 0 so that the traversal goes on, and leaves
\* op_data.dset_ids empty.
C10_DatasetHandleRule ==
  /\ dset_ids = <<>>
  /\ pc # "aborted"
  /\ \A n \in 1..Len(last) :
       LET r == last[n] IN
         /\ r.ret = 0
         /\ r.type # "DATASET" => ~r.dset_opened
         /\ r.type = "DATASET" =>
              /\ r.dset_opened
              /\ r.space_closed
              /\ r.dset_closed <=> (r.rank >= 1 /\ r.dim0 = 0)
====
